---- MODULE Spec2Model ----
(***************************************************************************)
(* SupportMind retrieval-and-ranking pipeline.                             *)
(*                                                                         *)
(*   SpecChunk    the character-window chunker  (retrieval/chunking.py)    *)
(*   SpecCompare  the comparator agent          (agent/agent.py)           *)
(*   SpecIndex    the vector-index builder      (retrieval/build_index.py) *)
(*   SpecQuery    a reader beside a build       (retrieval/query.py)       *)
(*                                                                         *)
(* A text is a sequence of one-character strings.                          *)
(***************************************************************************)
EXTENDS Integers, Sequences, FiniteSets, TLC

VARIABLES
    \* ---- _sliding_chunks(text, size, overlap)
    cpc,        \* "call" | "loop" | "done"
    ctext,      \* the argument text, as passed
    csize,      \* the argument size
    coverlap,   \* the argument overlap
    ct,         \* the local `text` after text.strip()
    cstart,     \* the local `start`
    cstarts,    \* the value of `start` at each chunks.append
    cchunks,    \* the local `chunks` / the returned list
    \* ---- compare(question, chroma_path, db_path)
    apc,            \* "start" | "hydrate" | "rank" | "parse" | "done" | "error"
    hooks,          \* what agent.incoming_hook / outgoing_hook are set to
    question,       \* the local `question` (after the incoming hook)
    tickets,        \* Ticket_Number of the rows the Tickets table holds
    retrieved,      \* source_id of results["metadatas"][0], nearest first
    ticket_numbers, \* the local `ticket_numbers`
    processed,      \* ticket numbers the ticket query was executed for
    candidates,     \* the local `candidates`
    llm_calls,      \* calls of chat.completions.create
    index_calls,    \* calls of collection.query made by this request
    request,        \* the local `candidates_for_llm` as sent
    response,       \* the text and decoded value of the service's answer
    stages,         \* the stages entered, in order
    raised,         \* the exception type that left compare, or "none"
    message,        \* the message of an AgentError
    result,         \* the returned dict, or NoResult
    \* ---- build_index / add_kb_article_to_index
    store,          \* the relational store: the rows of the three tables
    chroma_dir,     \* whether the index directory exists
    coll_exists,    \* whether the collection "supportmind" exists
    entries,        \* the records the collection holds
    chunk_size,     \* the chunk_size every call is given
    chunk_overlap,  \* the chunk_overlap every call is given
    bpc,            \* build_index: "idle" | "deleted" | "adding"
    batch_size,     \* build_index: the local `batch_size`
    bids,           \* build_index: the local `ids`
    bdocs,          \* build_index: the local `documents`
    bmetas,         \* build_index: the local `metadatas`
    bi,             \* build_index: the records written so far
    add_calls,      \* build_index: calls of collection.add so far
    added,          \* build_index: what each of those calls was given
    replaced,       \* the records the collection held when the build began
    last,           \* the last build that returned (see BuildRecord)
    outcome,        \* the most recent call of the index and how it ended
    reader          \* a reader of the collection: query_chroma or compare

chunkVars == <<cpc, ctext, csize, coverlap, ct, cstart, cstarts, cchunks>>

cmpVars == <<apc, hooks, question, tickets, retrieved, ticket_numbers,
             processed, candidates, llm_calls, index_calls, request,
             response, stages, raised, message, result>>

idxVars == <<store, chroma_dir, coll_exists, entries, chunk_size,
             chunk_overlap, bpc, batch_size, bids, bdocs, bmetas, bi,
             add_calls, added, replaced, last, outcome, reader>>

vars == <<chunkVars, cmpVars, idxVars>>

\* What a step of one component leaves alone.
notChunk == <<cmpVars, idxVars>>

notCmp == <<chunkVars, idxVars>>

notIdx == <<chunkVars, cmpVars>>

\* ------------------------------------------------------------------ bounds
MaxLen == 5
MaxSize == 3
MaxRetrieved == 3
MaxRankings == 2
MaxBatch == 2
MaxK == 2

\* ------------------------------------------------------------ text helpers
Chars == {" ", "a", "b"}

Texts == UNION {[1..n -> Chars] : n \in 0..MaxLen}

Min(a, b) == IF a < b THEN a ELSE b

Range(f) == {f[i] : i \in DOMAIN f}

SeqsUpTo(S, n) == UNION {[1..k -> S] : k \in 0..n}

RECURSIVE LStrip(_)
LStrip(s) == IF s # <<>> /\ Head(s) = " " THEN LStrip(Tail(s)) ELSE s

RECURSIVE RStrip(_)
RStrip(s) ==
    IF s # <<>> /\ s[Len(s)] = " " THEN RStrip(SubSeq(s, 1, Len(s) - 1)) ELSE s

StripLeftOnly(s) == LStrip(s)

\* str.strip()
Strip(s) == RStrip(LStrip(s))

\* One bound of a Python slice, normalised against a length n.
SliceBound(i, n) ==
    IF i < 0 THEN (IF i + n < 0 THEN 0 ELSE i + n) ELSE IF i > n THEN n ELSE i

\* text[s:e]
PySlice(t, s, e) ==
    LET a == SliceBound(s, Len(t))
        b == SliceBound(e, Len(t))
    IN  IF a >= b THEN <<>> ELSE SubSeq(t, a + 1, b)

\* ------------------------------------------------------------ the chunker
ShortResultKeepEmpty(t) == <<t>>

\* chunking.py:36: `return [text] if text else []`.
ShortResult(t) == IF t # <<>> THEN <<t>> ELSE <<>>

\* chunking.py:32-38: the guards before the loop.
SlidingEnter ==
    /\ cpc = "call"
    /\ IF ctext = <<>>
       THEN /\ cpc' = "done"
            /\ cchunks' = <<>>
            /\ UNCHANGED ct
       ELSE /\ ct' = Strip(ctext)
            /\ IF Len(ct') <= csize
               THEN /\ cpc' = "done"
                    /\ cchunks' = ShortResult(ct')
               ELSE /\ cpc' = "loop"
                    /\ cchunks' = <<>>
    /\ cstart' = 0
    /\ cstarts' = [i \in 1..Len(cchunks') |-> 0]
    /\ UNCHANGED <<ctext, csize, coverlap>>
    /\ UNCHANGED notChunk

NextStartNoOverlap(end, overlap) == end

\* The step from `start` after one window: chunking.py:44.
NextStart(end, overlap) == end - overlap

\* chunking.py:39-45: one iteration of the while loop.  A run that returns
\* appends at most Len(ct) windows, so the guard on Len(cchunks) cuts only
\* runs that never return.
SlidingLoop ==
    /\ cpc = "loop"
    /\ Len(cchunks) <= MaxLen
    /\ IF cstart < Len(ct)
       THEN LET end == cstart + csize IN
            /\ cchunks' = Append(cchunks, PySlice(ct, cstart, end))
            /\ cstarts' = Append(cstarts, cstart)
            /\ IF end >= Len(ct)
               THEN /\ cpc' = "done"
                    /\ UNCHANGED cstart
               ELSE /\ cstart' = NextStart(end, coverlap)
                    /\ UNCHANGED cpc
       ELSE /\ cpc' = "done"
            /\ UNCHANGED <<cstart, cstarts, cchunks>>
    /\ UNCHANGED <<ctext, csize, coverlap, ct>>
    /\ UNCHANGED notChunk

ChunkInit ==
    /\ cpc = "call"
    /\ ctext \in Texts
    /\ csize \in 1..MaxSize
    /\ coverlap \in 0..MaxSize
    /\ ct = ctext
    /\ cstart = 0
    /\ cstarts = <<>>
    /\ cchunks = <<>>

ChunkNext == SlidingEnter \/ SlidingLoop

\* A chunker that is not running (the other specifications).
ChunkIdle ==
    /\ cpc = "done"
    /\ ctext = <<>>
    /\ csize = 1
    /\ coverlap = 0
    /\ ct = <<>>
    /\ cstart = 0
    /\ cstarts = <<>>
    /\ cchunks = <<>>

\* ----------------------------------------------------- the relational store
\* SQL NULL / Python None.
Null == "NULL"

TicketIds == {"T1", "T2"}

\* `v or ""`
OrEmpty(v) == IF v = Null THEN "" ELSE v

\* A row of Tickets (agent.py:136-149).  Description and Resolution are long
\* texts, held as their lengths (NoText for NULL).
NoText == -1

TicketRow(t) ==
    IF t = "T1"
    THEN [Ticket_Number |-> "T1", Status |-> "Closed", Tier |-> "1",
          Module |-> "Billing", Category |-> "Refund", Resolution |-> 450,
          KB_Article_ID |-> "KB-1", Script_ID |-> "SCR-1",
          Description |-> 320]
    ELSE [Ticket_Number |-> "T2", Status |-> "Open", Tier |-> "2",
          Module |-> "Login", Category |-> "Access", Resolution |-> NoText,
          KB_Article_ID |-> Null, Script_ID |-> "SCR-2",
          Description |-> 120]

\* Scripts_Master.Script_Text_Sanitized by Script_ID; SCR-2 has no row.
ScriptRows == {"SCR-1"}

ScriptText(script_id) == IF script_id = "SCR-1" THEN "reset-cache" ELSE Null

\* `row.Description or ""` on a text held as its length.
OrEmptyText(n) == IF n = NoText THEN 0 ELSE n

\* agent.py:155-179: one candidate from a ticket row.
Candidate(t) ==
    LET row == TicketRow(t)
        script_text ==
            IF row.Script_ID # Null /\ row.Script_ID # ""
               /\ row.Script_ID \in ScriptRows
               /\ ScriptText(row.Script_ID) # Null
               /\ ScriptText(row.Script_ID) # ""
            THEN ScriptText(row.Script_ID)
            ELSE ""
    IN  [ticket_number |-> row.Ticket_Number,
         status |-> row.Status,
         tier |-> row.Tier,
         module |-> row.Module,
         category |-> row.Category,
         resolution |-> OrEmptyText(row.Resolution),
         kb_article_id |-> OrEmpty(row.KB_Article_ID),
         script_id |-> OrEmpty(row.Script_ID),
         script_text |-> script_text,
         description |-> OrEmptyText(row.Description)]

HydrateKeepsMissing(nums, rows) ==
    [i \in 1..Len(nums) |-> Candidate(nums[i])]

\* agent.py:134-179: the candidates of the ticket numbers that have a row.
RECURSIVE Hydrate(_, _)
Hydrate(nums, rows) ==
    IF nums = <<>> THEN <<>>
    ELSE IF Head(nums) \in rows
         THEN <<Candidate(Head(nums))>> \o Hydrate(Tail(nums), rows)
         ELSE Hydrate(Tail(nums), rows)

\* ------------------------------------------------------------- the hooks
HookSettings == {"none", "identity", "guardrails"}

\* agent.py:83-85
IncomingHook(h, q) == IF h = "guardrails" THEN "q-triaged" ELSE q

\* agent.py:319-320
OutgoingHook(h, res) ==
    IF h = "guardrails" THEN res @@ [validated |-> TRUE] ELSE res

\* ------------------------------------------------------------ stage 1
DedupKeepAll(ids, seen) == ids

\* agent.py:110-115: the first occurrence of every non-empty source_id.
RECURSIVE Dedup(_, _)
Dedup(ids, seen) ==
    IF ids = <<>> THEN <<>>
    ELSE IF Head(ids) # "" /\ Head(ids) \notin seen
         THEN <<Head(ids)>> \o Dedup(Tail(ids), seen \cup {Head(ids)})
         ELSE Dedup(Tail(ids), seen)

NoResult == [none |-> TRUE]

NoResponse == [lines |-> <<>>, shape |-> "none", rankings |-> <<>>]

\* agent.py:118-123
NoTicketResult(q) ==
    [winner |-> Null, candidates |-> <<>>, question |-> q, no_match |-> TRUE]

\* agent.py:186-190 and 282-286
NoMatchResult(q) ==
    [ranked_results |-> <<>>, question |-> q, no_match |-> TRUE]

\* raise AgentError(msg)
RaiseAgentError(msg) ==
    /\ apc' = "error"
    /\ raised' = "AgentError"
    /\ message' = msg
    /\ UNCHANGED result

\* An exception of another type leaves compare uncaught.
Raise(kind) ==
    /\ apc' = "error"
    /\ raised' = kind
    /\ UNCHANGED <<message, result>>

Return(res) ==
    /\ apc' = "done"
    /\ result' = res
    /\ UNCHANGED <<raised, message>>

\* agent.py:88-89: the index directory is missing.
RetrieveIndexMissing ==
    /\ apc = "start"
    /\ question' = IncomingHook(hooks, question)
    /\ stages' = Append(stages, "retrieve")
    /\ RaiseAgentError("Chroma index not found")
    /\ UNCHANGED <<hooks, tickets, retrieved, ticket_numbers, processed,
                   candidates, llm_calls, request, response>>
    /\ UNCHANGED index_calls
    /\ UNCHANGED notCmp

\* agent.py:91-107: the embedding model or get_collection fails before the
\* query is made, or the query itself fails.
RetrieveFails ==
    /\ apc = "start"
    /\ question' = IncomingHook(hooks, question)
    /\ stages' = Append(stages, "retrieve")
    /\ RaiseAgentError("Embedding query failed")
    /\ UNCHANGED <<hooks, tickets, retrieved, ticket_numbers, processed,
                   candidates, llm_calls, request, response>>
    /\ index_calls' \in {index_calls, index_calls + 1}
    /\ UNCHANGED notCmp

\* agent.py:91-123: the query answers with at most top_k ticket chunks.
RetrieveOk ==
    /\ apc = "start"
    /\ question' = IncomingHook(hooks, question)
    /\ stages' = Append(stages, "retrieve")
    /\ \E metas \in SeqsUpTo(TicketIds, MaxRetrieved) :
          /\ retrieved' = metas
          /\ ticket_numbers' = Dedup(metas, {})
    /\ IF ticket_numbers' = <<>>
       THEN Return(NoTicketResult(question'))
       ELSE /\ apc' = "hydrate"
            /\ UNCHANGED <<raised, message, result>>
    /\ UNCHANGED <<hooks, tickets, processed, candidates, llm_calls, request,
                   response>>
    /\ index_calls' = index_calls + 1
    /\ UNCHANGED notCmp

\* ------------------------------------------------------------ stage 2
\* agent.py:126-127
HydrateDbMissing ==
    /\ apc = "hydrate"
    /\ stages' = Append(stages, "hydrate")
    /\ RaiseAgentError("DB not found")
    /\ UNCHANGED <<hooks, question, tickets, retrieved, ticket_numbers,
                   processed, candidates, llm_calls, request, response>>
    /\ UNCHANGED index_calls
    /\ UNCHANGED notCmp

\* agent.py:132-183: the connection or the k-th ticket query fails.
HydrateFails ==
    /\ apc = "hydrate"
    /\ stages' = Append(stages, "hydrate")
    /\ \E k \in 0..Len(ticket_numbers) :
          processed' = SubSeq(ticket_numbers, 1, k)
    /\ RaiseAgentError("Database query failed")
    /\ UNCHANGED <<hooks, question, tickets, retrieved, ticket_numbers,
                   candidates, llm_calls, request, response>>
    /\ UNCHANGED index_calls
    /\ UNCHANGED notCmp

NoCandidatesIgnored(cands) == FALSE

\* agent.py:185: `if not candidates`.
NoCandidates(cands) == cands = <<>>

\* agent.py:129-190
HydrateOk ==
    /\ apc = "hydrate"
    /\ stages' = Append(stages, "hydrate")
    /\ processed' = ticket_numbers
    /\ candidates' = Hydrate(ticket_numbers, tickets)
    /\ IF NoCandidates(candidates')
       THEN Return(NoMatchResult(question))
       ELSE /\ apc' = "rank"
            /\ UNCHANGED <<raised, message, result>>
    /\ UNCHANGED <<hooks, question, tickets, retrieved, ticket_numbers,
                   llm_calls, request, response>>
    /\ UNCHANGED index_calls
    /\ UNCHANGED notCmp

\* ------------------------------------------------------------ stage 3
\* agent.py:212-213: the character budget of a long field sent for ranking.
LlmFieldBudget == 300

\* text[:LlmFieldBudget] on a text held as its length.
Truncate(n) == Min(n, LlmFieldBudget)

\* agent.py:203-216
CandidateForLlm(i, c) ==
    [index |-> i,
     ticket_number |-> c.ticket_number,
     status |-> c.status,
     tier |-> c.tier,
     module |-> c.module,
     category |-> c.category,
     description |-> Truncate(c.description),
     resolution |-> Truncate(c.resolution),
     has_kb_article |-> (c.kb_article_id # ""),
     has_script |-> (c.script_id # "")]

CandidatesForLlm(cands) ==
    [i \in 1..Len(cands) |-> CandidateForLlm(i - 1, cands[i])]

\* agent.py:193-195: OPENAI_API_KEY unset or blank.
RankNoCredential ==
    /\ apc = "rank"
    /\ stages' = Append(stages, "rank")
    /\ RaiseAgentError("OPENAI_API_KEY not set in .env")
    /\ UNCHANGED <<hooks, question, tickets, retrieved, ticket_numbers,
                   processed, candidates, llm_calls, request, response>>
    /\ UNCHANGED index_calls
    /\ UNCHANGED notCmp

\* agent.py:197-260: the call of the ranking service fails.
RankCallFails ==
    /\ apc = "rank"
    /\ stages' = Append(stages, "rank")
    /\ request' = CandidatesForLlm(candidates)
    /\ llm_calls' = llm_calls + 1
    /\ RaiseAgentError("OpenAI API call failed")
    /\ UNCHANGED <<hooks, question, tickets, retrieved, ticket_numbers,
                   processed, candidates, response>>
    /\ UNCHANGED index_calls
    /\ UNCHANGED notCmp

\* ---- what the ranking service may answer
\* A line of the answer: a fence (three backticks, written FENCE, or three
\* backticks and a language tag, written FENCE-json), the JSON document, or a
\* blank line.
Fences == {"FENCE", "FENCE-json"}

ResponseLines ==
    { <<"JSON">>,
      <<"FENCE-json", "JSON", "FENCE">>,
      <<"FENCE", "JSON", "FENCE">>,
      <<"", "FENCE-json", "JSON", "FENCE", "">>,
      <<"FENCE-json", "JSON">>,
      <<"JSON", "FENCE">>,
      <<>> }

\* An entry of "rankings".  shape "ok": an object with an integer index and
\* rank; "no_index" / "no_rank": the key is absent; "index_str": the index is
\* a string; "not_dict": the entry is not an object.
WellFormedEntries(n) ==
    [shape : {"ok"}, index : (-1)..n, rank : 1..n, rationale : {"fit"}]

Special(shape) ==
    [shape |-> shape, index |-> 0, rank |-> 1, rationale |-> "fit"]

MalformedRankings ==
    LET bad == {Special(sh) :
                   sh \in {"no_index", "no_rank", "index_str", "not_dict"}}
    IN  {<<b>> : b \in bad}
          \cup {<<Special("ok"), b>> : b \in bad}
          \cup {<<b, Special("ok")>> : b \in bad}

\* The decoded JSON document.  shape "list": an object whose "rankings" is a
\* list; "no_rankings": an object without the key; "rankings_null",
\* "rankings_number", "rankings_string": an object whose "rankings" is null,
\* a non-zero number, a non-empty string; "not_object": a JSON array.
Documents(n) ==
    {[shape |-> "list", rankings |-> r] :
        r \in SeqsUpTo(WellFormedEntries(n), MaxRankings)
                \cup MalformedRankings}
      \cup {[shape |-> sh, rankings |-> <<>>] :
              sh \in {"no_rankings", "rankings_null", "rankings_number",
                      "rankings_string", "not_object"}}

Responses(n) ==
    {[lines |-> l, shape |-> d.shape, rankings |-> d.rankings] :
        l \in ResponseLines, d \in Documents(n)}

\* agent.py:197-260: the service answers.
RankCallOk ==
    /\ apc = "rank"
    /\ stages' = Append(stages, "rank")
    /\ request' = CandidatesForLlm(candidates)
    /\ llm_calls' = llm_calls + 1
    /\ response' \in Responses(Len(candidates))
    /\ apc' = "parse"
    /\ UNCHANGED <<hooks, question, tickets, retrieved, ticket_numbers,
                   processed, candidates, raised, message, result>>
    /\ UNCHANGED index_calls
    /\ UNCHANGED notCmp

\* ------------------------------------------------------------ stage 4
RECURSIVE StripLeft(_)
StripLeft(ls) == IF ls # <<>> /\ Head(ls) = "" THEN StripLeft(Tail(ls)) ELSE ls

RECURSIVE StripRight(_)
StripRight(ls) ==
    IF ls # <<>> /\ ls[Len(ls)] = ""
    THEN StripRight(SubSeq(ls, 1, Len(ls) - 1)) ELSE ls

\* agent.py:263: str.strip() on the text, held as its lines.
StripText(ls) == StripRight(StripLeft(ls))

StripFenceOpeningOnly(ls) ==
    IF ls # <<>> /\ Head(ls) \in Fences THEN Tail(ls) ELSE ls

\* agent.py:266-272
StripFence(ls) ==
    IF ls # <<>> /\ Head(ls) \in Fences
    THEN LET l1 == Tail(ls)
         IN  IF l1 # <<>> /\ l1[Len(l1)] = "FENCE"
             THEN SubSeq(l1, 1, Len(l1) - 1)
             ELSE l1
    ELSE ls

\* json.loads accepts one document with white space around it.
IsJson(ls) ==
    /\ \E i \in 1..Len(ls) : ls[i] = "JSON"
    /\ \A i, j \in 1..Len(ls) : (ls[i] # "" /\ ls[j] # "") => i = j
    /\ \A i \in 1..Len(ls) : ls[i] \in {"", "JSON"}

\* ranking.get("index", -1), ranking.get("rank", 0)
EntryIndex(e) == IF e.shape = "no_index" THEN -1 ELSE e.index

EntryRank(e) == IF e.shape = "no_rank" THEN 0 ELSE e.rank

InRangeSkipsZero(idx, n) == idx > 0 /\ idx < n

\* agent.py:292
InRange(idx, n) == ~(idx < 0 \/ idx >= n)

\* agent.py:295-307
RankedResult(e, c) ==
    [rank |-> EntryRank(e),
     ticket_number |-> c.ticket_number,
     kb_article_id |-> c.kb_article_id,
     script_id |-> c.script_id,
     script_text |-> c.script_text,
     rationale |-> e.rationale,
     module |-> c.module,
     category |-> c.category,
     status |-> c.status,
     tier |-> c.tier]

\* agent.py:289-307: the loop over the entries; an entry that is no object
\* has no .get, a string index cannot be compared with 0.
RECURSIVE Assemble(_, _, _)
Assemble(rankings, cands, acc) ==
    IF rankings = <<>> THEN [exc |-> "none", out |-> acc]
    ELSE LET e == Head(rankings) IN
         IF e.shape = "not_dict"
         THEN [exc |-> "AttributeError", out |-> <<>>]
         ELSE IF e.shape = "index_str"
         THEN [exc |-> "TypeError", out |-> <<>>]
         ELSE IF InRange(EntryIndex(e), Len(cands))
         THEN Assemble(Tail(rankings), cands,
                       Append(acc, RankedResult(e, cands[EntryIndex(e) + 1])))
         ELSE Assemble(Tail(rankings), cands, acc)

RECURSIVE InsertByRank(_, _)
InsertByRank(sorted, x) ==
    IF sorted = <<>> THEN <<x>>
    ELSE IF x.rank < Head(sorted).rank
         THEN <<x>> \o sorted
         ELSE <<Head(sorted)>> \o InsertByRank(Tail(sorted), x)

RECURSIVE SortFrom(_, _)
SortFrom(sorted, rest) ==
    IF rest = <<>> THEN sorted
    ELSE SortFrom(InsertByRank(sorted, Head(rest)), Tail(rest))

SortByRankKeepOrder(rr) == rr

\* agent.py:310: list.sort(key=rank), a stable sort.
SortByRank(rr) == SortFrom(<<>>, rr)

\* How the code after the call of the ranking service ends: with an error
\* (exc, message) or with the result it returns.
Ended(exc, msg, res) == [exc |-> exc, message |-> msg, result |-> res]

\* agent.py:262-322 on the answer `lines` whose JSON document is `doc`.
ParseStep(lines, doc, cands, qn, h) ==
    LET text == StripFence(StripText(lines)) IN
    IF ~IsJson(text)
    THEN Ended("AgentError", "OpenAI returned invalid JSON", NoResult)
    ELSE IF doc.shape = "not_object"
    THEN Ended("AttributeError", "", NoResult)
    ELSE IF doc.shape \in {"no_rankings", "rankings_null"}
    THEN Ended("none", "", NoMatchResult(qn))
    ELSE IF doc.shape = "rankings_number"
    THEN Ended("TypeError", "", NoResult)
    ELSE IF doc.shape = "rankings_string"
    THEN Ended("AttributeError", "", NoResult)
    ELSE IF doc.rankings = <<>>
    THEN Ended("none", "", NoMatchResult(qn))
    ELSE LET built == Assemble(doc.rankings, cands, <<>>) IN
         IF built.exc # "none"
         THEN Ended(built.exc, "", NoResult)
         ELSE Ended("none", "",
                    OutgoingHook(h, [ranked_results |-> SortByRank(built.out),
                                     question |-> qn,
                                     no_match |-> FALSE]))

\* agent.py:262-322
Parse ==
    /\ apc = "parse"
    /\ stages' = Append(stages, "parse")
    /\ \E end \in {ParseStep(response.lines, response, candidates, question,
                             hooks)} :
          IF end.exc = "none" THEN Return(end.result)
          ELSE IF end.exc = "AgentError" THEN RaiseAgentError(end.message)
          ELSE Raise(end.exc)
    /\ UNCHANGED <<hooks, question, tickets, retrieved, ticket_numbers,
                   processed, candidates, llm_calls, request, response>>
    /\ UNCHANGED index_calls
    /\ UNCHANGED notCmp

CmpStart ==
    /\ apc = "start"
    /\ question = "q"
    /\ retrieved = <<>>
    /\ ticket_numbers = <<>>
    /\ processed = <<>>
    /\ candidates = <<>>
    /\ llm_calls = 0
    /\ index_calls = 0
    /\ request = <<>>
    /\ response = NoResponse
    /\ stages = <<>>
    /\ raised = "none"
    /\ message = ""
    /\ result = NoResult

CmpInit ==
    /\ hooks \in HookSettings
    /\ tickets \in SUBSET TicketIds
    /\ CmpStart

\* No request in progress (the other specifications).
CmpIdle ==
    /\ hooks = "none"
    /\ tickets = {}
    /\ CmpStart

CmpNext ==
    \/ RetrieveIndexMissing
    \/ RetrieveFails
    \/ RetrieveOk
    \/ HydrateDbMissing
    \/ HydrateFails
    \/ HydrateOk
    \/ RankNoCredential
    \/ RankCallFails
    \/ RankCallOk
    \/ Parse

\* ------------------------------------------------- the vector index builder
\* _safe_str on a text field (chunking.py:48-51); NULL is the empty text.
SafeStr(val) == Strip(val)

\* chunking.py:35-45 as one call: the windows of a trimmed text longer than
\* size.
RECURSIVE SlidingFrom(_, _, _, _, _)
SlidingFrom(t, size, overlap, start, chunks) ==
    IF start < Len(t) /\ Len(chunks) <= Len(t)
    THEN LET end == start + size IN
         IF end >= Len(t)
         THEN Append(chunks, PySlice(t, start, end))
         ELSE SlidingFrom(t, size, overlap, NextStart(end, overlap),
                          Append(chunks, PySlice(t, start, end)))
    ELSE chunks

\* chunking.py:30-45
SlidingChunks(text, size, overlap) ==
    IF text = <<>> THEN <<>>
    ELSE LET t == Strip(text) IN
         IF Len(t) <= size THEN ShortResult(t)
         ELSE SlidingFrom(t, size, overlap, 0, <<>>)

\* The rows the tables may hold.  "D", "R" stand for the labels
\* "Description:" and "Resolution:" and "T" for "Title:"; the blanks are the
\* white space the f-strings put around them.
TicketRows ==
    {[Ticket_Number |-> "T1", Description |-> <<"a", "b">>,
      Resolution |-> <<>>]}

ScriptsMasterRows ==
    {[Script_ID |-> "SCR-1", Script_Text_Sanitized |-> <<"a", "b", "c">>]}

KnowledgeRows ==
    {[KB_Article_ID |-> "K1", Title |-> <<>>, Body |-> <<" ">>],
     [KB_Article_ID |-> "K1", Title |-> <<>>, Body |-> <<"a", "b">>],
     [KB_Article_ID |-> "K1", Title |-> <<>>,
      Body |-> <<"a", "b", "c", "d">>]}

\* The stores run_etl can leave: the ticket and script sheets of a workbook
\* are filled together or not at all, the article sheet holds no article or
\* article K1 with a blank body or one of two texts.
Stores ==
    {[Tickets |-> t,
      Scripts_Master |-> IF t = {} THEN {} ELSE ScriptsMasterRows,
      Knowledge_Articles |-> k] :
        t \in SUBSET TicketRows,
        k \in {{}} \cup {{r} : r \in KnowledgeRows}}

\* The rows of a table in the table's order.
RECURSIVE RowsOf(_)
RowsOf(table) ==
    IF table = {} THEN <<>>
    ELSE LET r == CHOOSE x \in table : TRUE
         IN  <<r>> \o RowsOf(table \ {r})

\* Chunk(text, source_type, source_id, chunk_index) for every window.
ChunksOf(parts, source_type, source_id) ==
    [i \in 1..Len(parts) |->
        [text |-> parts[i], source_type |-> source_type,
         source_id |-> source_id, chunk_index |-> i - 1]]

\* chunking.py:65-67
TicketText(desc, res) ==
    Strip(<<"D", " ">> \o desc \o <<" ", "R", " ">> \o res)

\* chunking.py:105 and build_index.py:127
KbText(title, body) ==
    IF title # <<>> THEN Strip(<<"T", " ">> \o title \o <<" ">> \o body)
    ELSE body

\* chunking.py:54-71
RECURSIVE ChunksFromTickets(_, _, _)
ChunksFromTickets(rows, size, overlap) ==
    IF rows = <<>> THEN <<>>
    ELSE LET row == Head(rows)
             combined == TicketText(SafeStr(row.Description),
                                    SafeStr(row.Resolution))
             here == IF row.Ticket_Number = "" \/ combined = <<>> THEN <<>>
                     ELSE ChunksOf(SlidingChunks(combined, size, overlap),
                                   "ticket", row.Ticket_Number)
         IN  here \o ChunksFromTickets(Tail(rows), size, overlap)

\* chunking.py:74-89
RECURSIVE ChunksFromScripts(_, _, _)
ChunksFromScripts(rows, size, overlap) ==
    IF rows = <<>> THEN <<>>
    ELSE LET row == Head(rows)
             body == SafeStr(row.Script_Text_Sanitized)
             here == IF row.Script_ID = "" \/ body = <<>> THEN <<>>
                     ELSE ChunksOf(SlidingChunks(body, size, overlap),
                                   "script", row.Script_ID)
         IN  here \o ChunksFromScripts(Tail(rows), size, overlap)

\* chunking.py:92-109
RECURSIVE ChunksFromKb(_, _, _)
ChunksFromKb(rows, size, overlap) ==
    IF rows = <<>> THEN <<>>
    ELSE LET row == Head(rows)
             combined == KbText(SafeStr(row.Title), SafeStr(row.Body))
             here == IF row.KB_Article_ID = "" \/ combined = <<>> THEN <<>>
                     ELSE ChunksOf(SlidingChunks(combined, size, overlap),
                                   "kb", row.KB_Article_ID)
         IN  here \o ChunksFromKb(Tail(rows), size, overlap)

\* chunking.py:112-142
LoadChunksFromDb(db, size, overlap) ==
    ChunksFromTickets(RowsOf(db.Tickets), size, overlap)
      \o ChunksFromScripts(RowsOf(db.Scripts_Master), size, overlap)
      \o ChunksFromKb(RowsOf(db.Knowledge_Articles), size, overlap)

ChunkIdWithoutIndex(source_type, source_id, chunk_index) ==
    source_type \o "_" \o source_id

\* build_index.py:83 and 147
ChunkId(source_type, source_id, chunk_index) ==
    source_type \o "_" \o source_id \o "_" \o ToString(chunk_index)

\* build_index.py:86-90 and 150-154
Metadata(chunk) ==
    [source_type |-> chunk.source_type, source_id |-> chunk.source_id,
     chunk_index |-> chunk.chunk_index]

\* collection.add: ids repeated within one call are refused.
HasDuplicateIds(ids) ==
    \E i, j \in 1..Len(ids) : i # j /\ ids[i] = ids[j]

\* collection.add: a record whose id the collection holds is left as it is.
RECURSIVE CollectionAdd(_, _, _, _)
CollectionAdd(held, ids, documents, metadatas) ==
    IF ids = <<>> THEN held
    ELSE LET rec == [id |-> Head(ids), document |-> Head(documents),
                     metadata |-> Head(metadatas)]
             next == IF \E e \in held : e.id = rec.id THEN held
                     ELSE held \cup {rec}
         IN  CollectionAdd(next, Tail(ids), Tail(documents), Tail(metadatas))

NoBuild ==
    [valid |-> FALSE, store |-> {}, entries |-> {}, returned |-> 0,
     add_calls |-> 0, batch_size |-> 1, batches |-> <<>>,
     replaced_other |-> FALSE, dropped |-> FALSE, repeat |-> FALSE,
     prior_entries |-> {}, prior_returned |-> 0]

\* What is known of the build that returns now with `held` and `value`: its
\* store, records, value, batch size and collection.add calls (how many and
\* what each was given); whether it replaced a
\* collection of other contents, and whether that collection held a record
\* that is gone (dropped); and, when the build that returned before it
\* read the same store (repeat), that build's records and value.
BuildRecord(before, held, value, calls) ==
    LET again == last.valid /\ last.store = store IN
    [valid |-> TRUE, store |-> store, entries |-> held, returned |-> value,
     add_calls |-> Len(calls), batch_size |-> batch_size, batches |-> calls,
     replaced_other |-> (before # held),
     dropped |-> (before \ held # {}),
     repeat |-> again,
     prior_entries |-> IF again THEN last.entries ELSE {},
     prior_returned |-> IF again THEN last.returned ELSE 0]

\* The most recent call on the index: which function, how it ended and, for
\* add_kb_article_to_index, the article and the text it was given.
CallRecord(call, status, article, text) ==
    [call |-> call, status |-> status, article |-> article, text |-> text]

NoCall == CallRecord("none", "none", "", <<>>)

\* A reader of the collection.  pc: "idle" | "opened" (it holds a handle
\* from get_collection) | "counted" (it has read collection.count()) |
\* "done".  found: what it met at the path, "no_path" | "no_collection" |
\* "collection".  serial: no build was running when it opened; stale: the
\* collection of its handle was deleted since.  count, n_results: what it
\* read and what it asked for.  seen: the records its query was answered
\* from; returned: the length of the sequence it returned.
ReaderRecord(pc, caller, k, filter, serial) ==
    [pc |-> pc, caller |-> caller, k |-> k, filter |-> filter,
     found |-> "collection", serial |-> serial, stale |-> FALSE,
     count |-> 0, n_results |-> 0,
     status |-> "none", error |-> "none", seen |-> {}, returned |-> 0]

\* No reader of the collection.
NoQuery == ReaderRecord("idle", "none", 0, "none", FALSE)

Returns(call) == CallRecord(call, "returned", "", <<>>)

Raises(call) == CallRecord(call, "raised", "", <<>>)

\* add_kb_article_to_index(kb_article_id, ...) ended; combined is the text
\* it chunked.
Published(status, kb_article_id, combined) ==
    CallRecord("add_kb_article_to_index", status, kb_article_id, combined)

\* The locals of build_index outside a call.
BuildLocalsFree ==
    /\ batch_size' = 1
    /\ bids' = <<>>
    /\ bdocs' = <<>>
    /\ bmetas' = <<>>
    /\ bi' = 0
    /\ add_calls' = 0
    /\ added' = <<>>
    /\ replaced' = {}

DeleteCollectionKeepsRecords(held) == held

\* build_index.py:64-67: client.delete_collection drops every record.
DeleteCollection(held) == {}

NoChunksNeverSeen(ids) == FALSE

\* build_index.py:92: `if not ids`.
NoChunks(ids) == ids = <<>>

\* A handle that a reader took with get_collection names the collection that
\* existed then; once that collection is deleted the handle is stale.
HandleLost(r) ==
    IF r.pc \in {"opened", "counted"} THEN [r EXCEPT !.stale = TRUE] ELSE r

\* build_index.py:53-67: make the directory and delete the collection.
BuildBegin ==
    /\ bpc = "idle"
    /\ bpc' = "deleted"
    /\ chroma_dir' = TRUE
    /\ coll_exists' = FALSE
    /\ entries' = DeleteCollection(entries)
    /\ replaced' = entries
    /\ outcome' = CallRecord("build_index", "running", "", <<>>)
    /\ reader' = HandleLost(reader)
    /\ UNCHANGED <<store, chunk_size, chunk_overlap, batch_size, bids, bdocs,
                   bmetas, bi, add_calls, added, last>>
    /\ UNCHANGED notIdx

\* build_index.py:68-93: create the collection, load and label the chunks;
\* a store without chunks returns 0.
BuildCreate ==
    /\ bpc = "deleted"
    /\ coll_exists' = TRUE
    /\ \E chunks \in {LoadChunksFromDb(store, chunk_size, chunk_overlap)} :
       \E ids \in {[i \in 1..Len(chunks) |->
                      ChunkId(chunks[i].source_type, chunks[i].source_id,
                              chunks[i].chunk_index)]} :
           IF NoChunks(ids)
           THEN /\ bpc' = "idle"
                /\ outcome' = Returns("build_index")
                /\ last' = BuildRecord(replaced, entries, 0, <<>>)
                /\ BuildLocalsFree
           ELSE /\ bpc' = "adding"
                /\ batch_size' \in 1..MaxBatch
                /\ bids' = ids
                /\ bdocs' = [i \in 1..Len(chunks) |-> chunks[i].text]
                /\ bmetas' = [i \in 1..Len(chunks) |-> Metadata(chunks[i])]
                /\ bi' = 0
                /\ add_calls' = 0
                /\ added' = <<>>
                /\ UNCHANGED <<last, outcome, replaced>>
    /\ UNCHANGED <<store, chroma_dir, entries, chunk_size, chunk_overlap,
                   reader>>
    /\ UNCHANGED notIdx

BatchEndOneShort(i, size, n) == Min(i + size, n) - 1

\* build_index.py:97: `end = min(i + batch_size, len(ids))`.
BatchEnd(i, size, n) == Min(i + size, n)

\* build_index.py:96: the next value of i in range(0, len(ids), batch_size).
NextBatch(i, size) == i + size

\* What one call of collection.add is given.
AddCall(ids, documents, metadatas) ==
    [ids |-> ids, documents |-> documents, metadatas |-> metadatas]

\* build_index.py:95-105: one batch of the write loop, and the return after
\* the last one.
BuildAddBatch ==
    /\ bpc = "adding"
    /\ LET end == BatchEnd(bi, batch_size, Len(bids))
           ids == SubSeq(bids, bi + 1, end)
           documents == SubSeq(bdocs, bi + 1, end)
           metadatas == SubSeq(bmetas, bi + 1, end)
           held == CollectionAdd(entries, ids, documents, metadatas)
           calls == Append(added, AddCall(ids, documents, metadatas))
       IN  IF HasDuplicateIds(ids)
           THEN /\ bpc' = "idle"
                /\ outcome' = Raises("build_index")
                /\ BuildLocalsFree
                /\ UNCHANGED <<entries, last>>
           ELSE /\ entries' = held
                /\ IF NextBatch(bi, batch_size) >= Len(bids)
                   THEN /\ bpc' = "idle"
                        /\ outcome' = Returns("build_index")
                        /\ last' = BuildRecord(replaced, held, Len(bids),
                                             calls)
                        /\ BuildLocalsFree
                   ELSE /\ bi' = NextBatch(bi, batch_size)
                        /\ add_calls' = add_calls + 1
                        /\ added' = calls
                        /\ UNCHANGED <<bpc, outcome, last, batch_size, bids,
                                       bdocs, bmetas, replaced>>
    /\ UNCHANGED <<store, chroma_dir, coll_exists, chunk_size, chunk_overlap,
                   reader>>
    /\ UNCHANGED notIdx

KbIds == {"K1"}

KbBodies == {<<>>, <<"a", "b">>, <<"a", "b", "c", "d">>}

\* build_index.py:108-157
AddKbArticleToIndex ==
    /\ bpc = "idle"
    /\ \E kb_article_id \in KbIds, body \in KbBodies :
       \E combined \in {KbText(SafeStr(<<>>), SafeStr(body))} :
       \E chunk_list \in {ChunksOf(SlidingChunks(combined, chunk_size,
                                                 chunk_overlap),
                                   "kb", kb_article_id)} :
       \E ids \in {[i \in 1..Len(chunk_list) |->
                      ChunkId("kb", chunk_list[i].source_id,
                              chunk_list[i].chunk_index)]} :
          IF combined = <<>> \/ chunk_list = <<>>
          THEN /\ outcome' = Published("returned", kb_article_id, combined)
               /\ UNCHANGED <<entries, chroma_dir>>
          ELSE /\ chroma_dir' = TRUE
               /\ IF ~coll_exists \/ HasDuplicateIds(ids)
                  THEN /\ outcome' = Published("raised", kb_article_id,
                                                combined)
                       /\ UNCHANGED entries
                  ELSE /\ entries' = CollectionAdd(entries, ids,
                              [i \in 1..Len(chunk_list) |->
                                  chunk_list[i].text],
                              [i \in 1..Len(chunk_list) |->
                                  Metadata(chunk_list[i])])
                       /\ outcome' = Published("returned", kb_article_id,
                                                combined)
    /\ UNCHANGED <<store, coll_exists, chunk_size, chunk_overlap, bpc,
                   batch_size, bids, bdocs, bmetas, bi, add_calls, added,
                   replaced, last, reader>>
    /\ UNCHANGED notIdx

\* etl.py:49-99: run_etl replaces the tables of the relational store.
StoreWrite ==
    /\ bpc = "idle"
    /\ store' \in Stores \ {store}
    /\ UNCHANGED <<chroma_dir, coll_exists, entries, chunk_size,
                   chunk_overlap, bpc, batch_size, bids, bdocs, bmetas, bi,
                   add_calls, added, replaced, last, outcome, reader>>
    /\ UNCHANGED notIdx

\* ------------------------------------------------- readers of the index
Callers == {"query_chroma", "compare"}

\* query_chroma takes any `where` (query.py:21), here none or the ticket
\* filter; compare always passes the ticket filter (agent.py:104).
FiltersOf(caller) ==
    IF caller = "compare" THEN {"ticket"} ELSE {"none", "ticket"}

MatchingIgnoresFilter(held, filter) == held

\* The records a `where` filter admits.
Matching(held, filter) ==
    IF filter = "none" THEN held
    ELSE {e \in held : e.metadata.source_type = filter}

\* query.py:37 and agent.py:102: n_results=min(k, collection.count()).
Clamp(k, size) == Min(k, size)

\* The reader ends with the sequence it returns, answered from `from`.
ReaderReturns(r, from, n) ==
    [r EXCEPT !.pc = "done", !.status = "returned", !.seen = from,
              !.returned = n]

\* The reader ends with an error: query_chroma lets the error of chromadb
\* through; compare raises AgentError (agent.py:89 and 106-107).
ReaderRaises(r) ==
    [r EXCEPT !.pc = "done", !.status = "raised",
              !.error = IF r.caller = "compare" THEN "AgentError"
                        ELSE "ChromaError"]

\* query.py:27-33 and agent.py:88-97: the path test and get_collection.
QueryOpen ==
    /\ reader.pc = "idle"
    /\ \E caller \in Callers, k \in 1..MaxK :
       \E filter \in FiltersOf(caller) :
       \E r \in {ReaderRecord("opened", caller, k, filter, bpc = "idle")} :
          reader' = IF ~chroma_dir
                    THEN IF caller = "query_chroma"
                         THEN ReaderReturns([r EXCEPT !.found = "no_path"],
                                            {}, 0)
                         ELSE ReaderRaises([r EXCEPT !.found = "no_path"])
                    ELSE IF ~coll_exists
                    THEN ReaderRaises([r EXCEPT !.found = "no_collection"])
                    ELSE r
    /\ UNCHANGED <<store, chroma_dir, coll_exists, entries, chunk_size,
                   chunk_overlap, bpc, batch_size, bids, bdocs, bmetas, bi,
                   add_calls, added, replaced, last, outcome>>
    /\ UNCHANGED notIdx

\* query.py:37 and agent.py:102: collection.count() and the clamp.
QueryCount ==
    /\ reader.pc = "opened"
    /\ reader' = IF reader.stale
                 THEN ReaderRaises(reader)
                 ELSE [reader EXCEPT
                          !.pc = "counted",
                          !.count = Cardinality(entries),
                          !.n_results = Clamp(reader.k, Cardinality(entries))]
    /\ UNCHANGED <<store, chroma_dir, coll_exists, entries, chunk_size,
                   chunk_overlap, bpc, batch_size, bids, bdocs, bmetas, bi,
                   add_calls, added, replaced, last, outcome>>
    /\ UNCHANGED notIdx

\* query.py:35-56 and agent.py:100-123: collection.query, which refuses
\* n_results <= 0 and answers with the nearest n_results records the filter
\* admits (fewer if fewer are admitted).
QueryRun ==
    /\ reader.pc = "counted"
    /\ reader' = IF reader.stale \/ reader.n_results <= 0
                 THEN ReaderRaises(reader)
                 ELSE LET from == Matching(entries, reader.filter)
                      IN  ReaderReturns(reader, from,
                             Min(reader.n_results, Cardinality(from)))
    /\ UNCHANGED <<store, chroma_dir, coll_exists, entries, chunk_size,
                   chunk_overlap, bpc, batch_size, bids, bdocs, bmetas, bi,
                   add_calls, added, replaced, last, outcome>>
    /\ UNCHANGED notIdx

QueryNext ==
    \/ BuildBegin
    \/ BuildCreate
    \/ BuildAddBatch
    \/ QueryOpen
    \/ QueryCount
    \/ QueryRun

IdxStart ==
    /\ chroma_dir = FALSE
    /\ coll_exists = FALSE
    /\ entries = {}
    /\ bpc = "idle"
    /\ batch_size = 1
    /\ bids = <<>>
    /\ bdocs = <<>>
    /\ bmetas = <<>>
    /\ bi = 0
    /\ add_calls = 0
    /\ added = <<>>
    /\ replaced = {}
    /\ last = NoBuild
    /\ outcome = NoCall
    /\ reader = NoQuery

IdxInit ==
    /\ store \in Stores
    /\ chunk_size \in (MaxSize - 1)..MaxSize
    /\ chunk_overlap \in 0..1
    /\ IdxStart

\* No index work (the other specifications).
IdxIdle ==
    /\ store = [Tickets |-> {}, Scripts_Master |-> {},
                Knowledge_Articles |-> {}]
    /\ chunk_size = 2
    /\ chunk_overlap = 0
    /\ IdxStart

IdxNext ==
    \/ BuildBegin
    \/ BuildCreate
    \/ BuildAddBatch
    \/ AddKbArticleToIndex
    \/ StoreWrite

\* --------------------------------------------------------- specifications
InitChunk == ChunkInit /\ CmpIdle /\ IdxIdle

SpecChunk == InitChunk /\ [][ChunkNext]_vars

InitCompare == CmpInit /\ ChunkIdle /\ IdxIdle

SpecCompare == InitCompare /\ [][CmpNext]_vars

InitIndex == IdxInit /\ ChunkIdle /\ CmpIdle

SpecIndex == InitIndex /\ [][IdxNext]_vars

\* A reader beside the builds of one store.
SpecQuery == InitIndex /\ [][QueryNext]_vars

\* ----------------------------------------------------- compare properties
Returned == apc = "done"

RankedPath == Returned /\ result.no_match = FALSE

\* The position of the first occurrence of x in s.
FirstIndex(s, x) ==
    CHOOSE i \in 1..Len(s) : s[i] = x /\ \A j \in 1..(i - 1) : s[j] # x

\* The hydrate stage ran through all its ticket numbers.
HydrateCompleted ==
    /\ "hydrate" \in Range(stages)
    /\ message \notin {"DB not found", "Database query failed"}

\* C1: whenever the retrieve stage yields no ticket ids, compare returns a
\* result whose ranked_results is the empty sequence and whose no_match flag
\* is true, and the ranking service is never called during that request.
C1_NoTicketIdsEmptyRankedResults ==
    (Returned /\ ticket_numbers = <<>>)
        => /\ "ranked_results" \in DOMAIN result
           /\ result.ranked_results = <<>>
           /\ result.no_match = TRUE
           /\ llm_calls = 0

\* C2: for every sequence of retrieved chunks (nearest first), the hydrate
\* stage processes each distinct source_id exactly once, in the order of its
\* first (nearest) occurrence in the retrieval result.
C2_HydrateOncePerSourceIdInOrder ==
    /\ \A i, j \in 1..Len(processed) :
          i # j => processed[i] # processed[j]
    /\ Range(processed) \subseteq Range(retrieved)
    /\ \A i, j \in 1..Len(processed) :
          i < j => FirstIndex(retrieved, processed[i])
                     < FirstIndex(retrieved, processed[j])
    /\ HydrateCompleted => Range(processed) = Range(retrieved)

\* C2 witness: T1 is retrieved through two chunks, with T2 between them.
C2_Witness ==
    /\ apc = "rank"
    /\ retrieved = <<"T1", "T2", "T1">>
    /\ processed = <<"T1", "T2">>

\* C3: for every ranking response and every order of its entries, the
\* ranked_results returned by compare is sorted ascending by rank, and each
\* result carries the ticket number, KB article id, script id and script
\* text of the candidate at the entry's index, as the store holds them.
C3_SortedByRankWithOwnCandidate ==
    RankedPath =>
        LET rr == result.ranked_results IN
        /\ \A k \in 1..(Len(rr) - 1) : rr[k].rank <= rr[k + 1].rank
        /\ \A k \in 1..Len(rr) :
              \E j \in 1..Len(response.rankings) :
                 LET e == response.rankings[j]
                     idx == IF e.shape = "no_index" THEN -1 ELSE e.index
                 IN  /\ idx \in 0..(Len(candidates) - 1)
                     /\ rr[k].rank = IF e.shape = "no_rank" THEN 0 ELSE e.rank
                     /\ LET c == candidates[idx + 1]
                            row == TicketRow(c.ticket_number)
                        IN  /\ rr[k].ticket_number = c.ticket_number
                            /\ rr[k].kb_article_id = c.kb_article_id
                            /\ rr[k].script_id = c.script_id
                            /\ rr[k].script_text = c.script_text
                            /\ rr[k].ticket_number = row.Ticket_Number
                            /\ rr[k].kb_article_id = OrEmpty(row.KB_Article_ID)
                            /\ rr[k].script_id = OrEmpty(row.Script_ID)
                            /\ rr[k].script_text
                                 = OrEmpty(ScriptText(row.Script_ID))

\* C3 witness: the service lists rank 2 before rank 1; candidate 1 comes out
\* first and candidate 0 second.
C3_Witness ==
    /\ RankedPath
    /\ Len(candidates) = 2
    /\ Len(response.rankings) = 2
    /\ response.rankings[1].shape = "ok"
    /\ response.rankings[1].index = 0
    /\ response.rankings[1].rank = 2
    /\ response.rankings[2].shape = "ok"
    /\ response.rankings[2].index = 1
    /\ response.rankings[2].rank = 1
    /\ Len(result.ranked_results) = 2
    /\ result.ranked_results[1].ticket_number = candidates[2].ticket_number
    /\ result.ranked_results[2].ticket_number = candidates[1].ticket_number

\* C4: in every result returned by compare with no_match false, the ranks of
\* ranked_results are exactly 1..N with no duplicates, where N is the number
\* of candidates retrieved and hydrated, and every such candidate appears
\* exactly once.
C4_RanksArePermutationOfCandidates ==
    RankedPath =>
        LET rr == result.ranked_results
            N == Len(candidates)
        IN  /\ Len(rr) = N
            /\ {rr[k].rank : k \in 1..Len(rr)} = 1..N
            /\ {rr[k].ticket_number : k \in 1..Len(rr)}
                 = {candidates[i].ticket_number : i \in 1..N}

\* The entries of the response are objects with integer index and rank (or
\* without the key), and the text was decoded.
WellTypedRankings ==
    /\ "parse" \in Range(stages)
    /\ message # "OpenAI returned invalid JSON"
    /\ response.shape = "list"
    /\ response.rankings # <<>>
    /\ \A j \in 1..Len(response.rankings) :
          response.rankings[j].shape \in {"ok", "no_index", "no_rank"}

EntryIndexOf(j) ==
    IF response.rankings[j].shape = "no_index" THEN -1
    ELSE response.rankings[j].index

EntryRankOf(j) ==
    IF response.rankings[j].shape = "no_rank" THEN 0
    ELSE response.rankings[j].rank

\* C5: a ranking response entry whose index lies outside [0, number of
\* candidates) is dropped without raising an error, and every other entry of
\* the same response still produces its result in ranked_results.
C5_OutOfRangeDroppedOthersKept ==
    WellTypedRankings =>
        /\ RankedPath
        /\ raised = "none"
        /\ LET rr == result.ranked_results
               N == Len(candidates)
               inRange == {j \in 1..Len(response.rankings) :
                              EntryIndexOf(j) \in 0..(N - 1)}
           IN  /\ Len(rr) = Cardinality(inRange)
               /\ \A idx \in 0..(N - 1), r \in 0..N :
                     Cardinality({k \in 1..Len(rr) :
                        /\ rr[k].rank = r
                        /\ rr[k].ticket_number
                             = candidates[idx + 1].ticket_number})
                     = Cardinality({j \in inRange :
                          EntryIndexOf(j) = idx /\ EntryRankOf(j) = r})

\* C5 witness: a response with an index below and an index above the range
\* and one entry in range, which is the only result.
C5_Witness ==
    /\ RankedPath
    /\ WellTypedRankings
    /\ \E j \in 1..Len(response.rankings) :
          EntryIndexOf(j) \notin 0..(Len(candidates) - 1)
    /\ Len(result.ranked_results) >= 1
    /\ Len(result.ranked_results) < Len(response.rankings)

\* C6: every failure of compare surfaces to the caller as the single error
\* kind AgentError; no other exception type escapes compare and no partial
\* result is returned on such a failure.
C6_OnlyAgentErrorEscapes ==
    apc = "error" => (raised = "AgentError" /\ result = NoResult)

\* The answer is a document inside a code fence: its first line (blank lines
\* around the text apart) opens with three backticks, its last line is three
\* backticks.
IsFenced(ls) ==
    LET t == StripText(ls) IN
    /\ Len(t) >= 2
    /\ Head(t) \in Fences
    /\ t[Len(t)] = "FENCE"

\* The lines between the fences.
Unfenced(ls) ==
    LET t == StripText(ls) IN SubSeq(t, 2, Len(t) - 1)

\* C15: for every response text R that is valid JSON, the parse step applied
\* to R wrapped in a markdown code fence ends as it ends on R itself: with
\* the same decoded rankings and the same result, or with the same error.
C15_FencedParsesAsUnfenced ==
    ("parse" \in Range(stages) /\ IsFenced(response.lines)
        /\ IsJson(Unfenced(response.lines)))
        => Ended(raised, message, result)
             = ParseStep(Unfenced(response.lines), response, candidates,
                         question, hooks)

\* C15 witness: a fenced answer with a language tag and blank lines around
\* it was decoded and its two rankings came out as results.
C15_Witness ==
    /\ RankedPath
    /\ IsFenced(response.lines)
    /\ Head(response.lines) = ""
    /\ Len(result.ranked_results) = 2

\* C16: when an outgoing hook is registered, every result compare returns
\* without error, on the ranked path and on each no-match path alike, is the
\* hook's output on the assembled result; and with hooks that return their
\* first argument unchanged compare returns the result it returns with no
\* hooks.
C16_OutgoingHookOnEveryResult ==
    /\ (Returned /\ hooks = "guardrails")
          => \E assembled \in
                   {NoTicketResult(question), NoMatchResult(question)}
                     \cup {[ranked_results |-> rr, question |-> question,
                            no_match |-> FALSE] :
                              rr \in IF "ranked_results" \in DOMAIN result
                                     THEN {result.ranked_results} ELSE {}} :
                result = OutgoingHook(hooks, assembled)
    /\ (Returned /\ hooks = "identity")
          => /\ question = "q"
             /\ "parse" \in Range(stages)
                   => result = ParseStep(response.lines, response,
                                         candidates, "q", "none").result
             /\ "parse" \notin Range(stages)
                   => result \in {NoTicketResult("q"), NoMatchResult("q")}

\* The stages of compare in their fixed order.
StageOrder == <<"retrieve", "hydrate", "rank", "parse">>

Finished == apc \in {"done", "error"}

\* The retrieve stage ran to its end: neither the check of the index
\* directory nor the embedding query stopped the request.
RetrievePassed ==
    /\ "retrieve" \in Range(stages)
    /\ message \notin {"Chroma index not found", "Embedding query failed"}

C19_StagesAndCalls ==
    /\ Len(stages) <= Len(StageOrder)
    /\ stages = SubSeq(StageOrder, 1, Len(stages))
    /\ index_calls <= 1
    /\ RetrievePassed => index_calls = 1
    /\ "retrieve" \notin Range(stages) => index_calls = 0
    /\ llm_calls <= 1
    /\ llm_calls = 1 => /\ candidates # <<>>
                        /\ SubSeq(stages, 1, 3) = SubSeq(StageOrder, 1, 3)
    /\ "rank" \notin Range(stages) => llm_calls = 0

C19_NoStepAfterTheEnd ==
    /\ Finished => UNCHANGED cmpVars
    /\ Len(stages') <= Len(stages) + 1
    /\ index_calls' >= index_calls
    /\ llm_calls' >= llm_calls

\* C19 (amended): in every execution of compare the stages occur in the fixed
\* order retrieve, hydrate, rank, parse-and-assemble with no stage entered
\* twice; the vector index is queried at most once, and exactly once in every
\* execution whose retrieve stage runs to its end; the ranking service is
\* called at most once and only after hydration has produced at least one
\* candidate; and once a call has failed the request makes no further step,
\* so no external call is retried.
C19_FixedStagesNoRetry ==
    []C19_StagesAndCalls /\ [][C19_NoStepAfterTheEnd]_vars

\* C19 witness: a request that went through all four stages, with one query
\* of the index and one call of the ranking service.
C19_Witness ==
    /\ Returned
    /\ stages = StageOrder
    /\ index_calls = 1
    /\ llm_calls = 1
    /\ Len(candidates) = 2

\* C19 as stated: every execution of compare queries the vector index
\* exactly once.
C19_IndexQueriedExactlyOnce ==
    Finished => index_calls = 1

\* C20: the candidate list built by the hydrate stage is exactly the
\* subsequence of the retrieved ticket ids that have a row in the relational
\* store, in retrieval order; an id without a row is dropped without an
\* error, and when no retrieved id has a row compare returns no_match true
\* with empty ranked_results without calling the ranking service.
C20_HydrateKeepsExactlyStoredTickets ==
    HydrateCompleted =>
        LET stored == SelectSeq(ticket_numbers, LAMBDA t : t \in tickets)
        IN  /\ Len(candidates) = Len(stored)
            /\ \A i \in 1..Len(stored) :
                  /\ candidates[i].ticket_number = stored[i]
                  /\ candidates[i] = Candidate(stored[i])
            /\ Len(stages) = 2 => /\ raised = "none"
                                  /\ apc \in {"done", "rank"}
            /\ stored = <<>> => /\ Returned
                                /\ result.no_match = TRUE
                                /\ "ranked_results" \in DOMAIN result
                                /\ result = NoMatchResult(question)
                                /\ llm_calls = 0
                                /\ stages = SubSeq(StageOrder, 1, 2)

\* C20 witness: T2 is retrieved first and has no row, T1 has one; hydration
\* keeps T1 alone and the request goes on to the ranking stage.
C20_Witness ==
    /\ apc = "rank"
    /\ ticket_numbers = <<"T2", "T1">>
    /\ tickets = {"T1"}
    /\ Len(candidates) = 1
    /\ candidates[1].ticket_number = "T1"

\* Every retrieved id lacks a row: compare returns the no-match result.
C20_NoneStored ==
    /\ Returned
    /\ ticket_numbers # <<>>
    /\ candidates = <<>>
    /\ result = NoMatchResult(question)

\* C23: in every result that compare returns without error the key
\* ranked_results is present, and no_match is true exactly when
\* ranked_results is empty.
C23_NoMatchIffNoRankedResults ==
    Returned =>
        /\ "ranked_results" \in DOMAIN result
        /\ (result.no_match = TRUE) <=> (result.ranked_results = <<>>)

\* A returned result without the key ranked_results.
C23_ResultLacksRankedResults ==
    /\ Returned
    /\ "ranked_results" \notin DOMAIN result

\* A response whose entries are all out of range: the returned result has
\* no ranked result and no_match false.
C23_EmptyRankedButMatch ==
    /\ Returned
    /\ "ranked_results" \in DOMAIN result
    /\ result.ranked_results = <<>>
    /\ result.no_match = FALSE

\* --------------------------------------------------- chunker properties
Blanks(n) == [i \in 1..n |-> " "]

\* w is s without its leading and trailing blanks (stated without Strip).
IsTrimOf(w, s) ==
    /\ w # <<>> => (w[1] # " " /\ w[Len(w)] # " ")
    /\ \E i \in 0..Len(s) :
          /\ i + Len(w) <= Len(s)
          /\ s = Blanks(i) \o w \o Blanks(Len(s) - i - Len(w))

\* The returned windows are windows of text `t`: full-size except possibly
\* the last, each pair of neighbours sharing exactly `coverlap` characters,
\* the first starting at 0 and the last ending at Len(t).
WindowsOf(t) ==
    LET n == Len(cchunks)
        End(i) == cstarts[i] + Len(cchunks[i])
    IN  /\ n >= 1
        /\ Len(cstarts) = n
        /\ cstarts[1] = 0
        /\ \A i \in 1..n :
              /\ cchunks[i] # <<>>
              /\ End(i) <= Len(t)
              /\ cchunks[i] = SubSeq(t, cstarts[i] + 1, End(i))
        /\ \A i \in 1..(n - 1) :
              /\ Len(cchunks[i]) = csize
              /\ End(i) - cstarts[i + 1] = coverlap
              /\ End(i + 1) > End(i)
        /\ End(n) = Len(t)

\* C7 (as amended): for every text T whose trimmed form T' is longer than
\* size, and 0 <= overlap < size, the windows returned by _sliding_chunks
\* are windows of T': all of length size except possibly the last, each
\* consecutive pair overlapping by exactly overlap characters, the last
\* window ending at len(T').
C7_WindowsOfTrimmed ==
    (cpc = "done" /\ coverlap < csize)
        => \A w \in Texts :
              (IsTrimOf(w, ctext) /\ Len(w) > csize) => WindowsOf(w)

\* C7 witness: a text with blanks around it, cut into several windows with a
\* positive overlap and a short last window.
C7_Witness ==
    /\ cpc = "done"
    /\ Len(ctext) > csize
    /\ ctext # ct
    /\ coverlap > 0
    /\ coverlap < csize
    /\ Len(cchunks) >= 2
    /\ Len(cchunks[Len(cchunks)]) < csize

\* C7 (as stated): the same with the positions taken in T itself, the last
\* window ending at len(T).
C7_WindowsOfArgument ==
    (cpc = "done" /\ Len(ctext) > csize /\ coverlap < csize)
        => WindowsOf(ctext)

\* C8 (as amended): for every text T with len(T) <= size, _sliding_chunks
\* returns exactly one window, equal to T after trimming, or no window when
\* T is empty after trimming.
C8_ShortTextOneTrimmedWindow ==
    (cpc = "done" /\ Len(ctext) <= csize)
        => \E w \in Texts :
              /\ IsTrimOf(w, ctext)
              /\ cchunks = IF w = <<>> THEN <<>> ELSE <<w>>

\* C8 witness: a short text with a blank at an end comes back as one
\* trimmed window.
C8_Witness ==
    /\ cpc = "done"
    /\ Len(ctext) <= csize
    /\ Len(cchunks) = 1
    /\ cchunks[1] # ctext

\* C8 (as stated): the one window equals T.
C8_ShortTextOneWindowEqualT ==
    (cpc = "done" /\ Len(ctext) <= csize)
        => cchunks = IF Strip(ctext) = <<>> THEN <<>> ELSE <<ctext>>

\* C9: _sliding_chunks terminates on every input: with overlap >= size and a
\* text longer than size the call fails before the loop is entered, and a
\* call never appends more windows than the text has characters.
C9_FailFastNoLoop ==
    /\ (cpc = "loop" => coverlap < csize)
    /\ Len(cchunks) <= Len(ctext)

\* Window w without its first n characters.
DropLeading(w, n) == SubSeq(w, n + 1, Len(w))

\* The windows ws joined in index order, each window other than the first
\* without its leading `overlap` characters.
RECURSIVE JoinRest(_, _)
JoinRest(ws, overlap) ==
    IF ws = <<>> THEN <<>>
    ELSE DropLeading(Head(ws), overlap) \o JoinRest(Tail(ws), overlap)

JoinWindows(ws, overlap) ==
    IF ws = <<>> THEN <<>> ELSE Head(ws) \o JoinRest(Tail(ws), overlap)

\* C21: for every text and every size and overlap with 0 <= overlap < size,
\* the windows returned by _sliding_chunks, joined in index order after
\* removing from each window other than the first its leading overlap
\* characters, give exactly the trimmed source text; every window is
\* non-empty and no longer than size.
C21_WindowsRebuildTrimmedText ==
    (cpc = "done" /\ coverlap < csize)
        => /\ IsTrimOf(JoinWindows(cchunks, coverlap), ctext)
           /\ \A i \in 1..Len(cchunks) :
                 /\ Len(cchunks[i]) >= 1
                 /\ Len(cchunks[i]) <= csize

\* C21 witness: a text with a blank before it, cut with a positive overlap
\* into several windows the last of which is short.
C21_Witness ==
    /\ cpc = "done"
    /\ ctext # <<>>
    /\ Head(ctext) = " "
    /\ coverlap > 0
    /\ coverlap < csize
    /\ Len(cchunks) >= 2
    /\ Len(cchunks[Len(cchunks)]) < csize
    /\ JoinWindows(cchunks, coverlap) # ctext

\* ------------------------------------------------- properties of the index
\* The identifiers of the records of a collection.
IdsOf(held) == {e.id : e \in held}

\* C10: the identifier persisted for a chunk is the text made of its
\* source_type, source_id and chunk_index and of nothing else, so two records
\* of the collection with the same three values cannot differ in identifier;
\* and a build_index that returns after a build over the same relational
\* store, with the same chunk parameters, leaves the same identifiers and
\* the same collection contents and returns the same count.
C10_IdsFromKeyAndBuildIdempotent ==
    /\ \A e \in entries :
          e.id = e.metadata.source_type \o "_" \o e.metadata.source_id
                   \o "_" \o ToString(e.metadata.chunk_index)
    /\ \A e1, e2 \in entries : (e1.id = e2.id) <=> (e1.metadata = e2.metadata)
    /\ (last.valid /\ last.repeat) =>
          /\ IdsOf(last.entries) = IdsOf(last.prior_entries)
          /\ last.entries = last.prior_entries
          /\ last.returned = last.prior_returned

\* A second build over an unchanged store has returned; it wrote several
\* chunks of one source in more than one batch, and the collection it
\* replaced was not the one it left (an incremental add had changed it).
C10_Witness ==
    /\ bpc = "idle"
    /\ last.valid
    /\ last.repeat
    /\ last.replaced_other
    /\ last.add_calls >= 2
    /\ entries = last.entries
    /\ \E e \in entries : e.metadata.chunk_index >= 1

\* The records a build derives from a store: one per chunk, labelled with
\* the chunk's source and position.
DerivedRecords(db, size, overlap) ==
    LET chunks == LoadChunksFromDb(db, size, overlap) IN
    {[id |-> chunks[i].source_type \o "_" \o chunks[i].source_id
               \o "_" \o ToString(chunks[i].chunk_index),
      document |-> chunks[i].text,
      metadata |-> [source_type |-> chunks[i].source_type,
                    source_id |-> chunks[i].source_id,
                    chunk_index |-> chunks[i].chunk_index]] :
        i \in 1..Len(chunks)}

\* No call has touched the collection since a build_index returned.
BuildJustReturned ==
    /\ bpc = "idle"
    /\ outcome = Returns("build_index")

\* C11: after build_index completes successfully the collection holds exactly
\* the chunks derived from the relational store the build read: no record
\* that was in the collection before the build (one added by
\* add_kb_article_to_index included) remains unless the store yields it.
C11_BuildReplacesCollection ==
    BuildJustReturned =>
        /\ last.valid
        /\ coll_exists
        /\ entries = DerivedRecords(last.store, chunk_size, chunk_overlap)
        /\ last.entries = entries

\* C11 witness: the build has dropped a record the collection held before it
\* (the chunk of an article that an incremental add had written and the
\* store does not yield), and left a collection that is not empty.
C11_Witness ==
    /\ BuildJustReturned
    /\ last.dropped
    /\ last.store.Knowledge_Articles = {}
    /\ entries # {}

\* The records of the collection that belong to a knowledge article.
ArticleRecords(held, kb_article_id) ==
    {e \in held : /\ e.metadata.source_type = "kb"
                  /\ e.metadata.source_id = kb_article_id}

\* add_kb_article_to_index has just returned for a text that is not empty.
PublishJustReturned ==
    /\ outcome.call = "add_kb_article_to_index"
    /\ outcome.status = "returned"
    /\ outcome.text # <<>>

\* C12: over every sequence of add_kb_article_to_index and build_index calls
\* the collection never holds two records for the same (kb, article id,
\* chunk_index); once an article is published, every record the collection
\* holds for it is a chunk of the text most recently published; and the
\* identifier of a record of an article is the one a full build assigns.
C12_PublishLeavesLatestText ==
    /\ \A e1, e2 \in entries :
          (e1.metadata = e2.metadata) => (e1 = e2)
    /\ \A e \in entries :
          e.metadata.source_type = "kb" =>
             e.id = "kb_" \o e.metadata.source_id
                      \o "_" \o ToString(e.metadata.chunk_index)
    /\ PublishJustReturned =>
          LET parts == SlidingChunks(outcome.text, chunk_size, chunk_overlap)
          IN  \A e \in ArticleRecords(entries, outcome.article) :
                 /\ e.metadata.chunk_index < Len(parts)
                 /\ e.document = parts[e.metadata.chunk_index + 1]

\* ------------------------------------------------ properties of the readers
\* The call has ended and no build deleted the collection under it.
ReaderDone == reader.pc = "done" /\ ~reader.stale

\* C13: query_chroma returns an empty sequence and raises no error when the
\* index path does not exist, when the named collection does not exist, and
\* when the collection exists but holds no records.
C13_QueryChromaEmptyNeverRaises ==
    (/\ ReaderDone
     /\ reader.caller = "query_chroma"
     /\ \/ reader.found = "no_path"
        \/ reader.found = "no_collection"
        \/ reader.found = "collection" /\ reader.count = 0)
        => /\ reader.status = "returned"
           /\ reader.returned = 0

\* C14: for every k and every collection the result count asked of the index
\* is min(k, collection size), so a query with k greater than the collection
\* size does not raise and returns at most collection-size results, for
\* query_chroma and for the retrieve stage of compare, with or without a
\* source-type filter.
C14_ClampedQueryNeverRaises ==
    /\ (reader.pc = "counted" \/ (ReaderDone /\ reader.found = "collection"))
          => reader.n_results = IF reader.k < reader.count THEN reader.k
                                ELSE reader.count
    /\ (ReaderDone /\ reader.found = "collection"
          /\ reader.k > reader.count)
          => /\ reader.status = "returned"
             /\ reader.returned <= reader.count

\* The records of the complete rebuilt collection that a filter admits.
CompleteFor(filter) ==
    {e \in DerivedRecords(store, chunk_size, chunk_overlap) :
        filter = "none" \/ e.metadata.source_type = filter}

\* The reader holds (or held to the end) a handle of a collection that no
\* build was writing when it opened and none deleted since.
ReaderAfterBuild ==
    /\ reader.found = "collection"
    /\ reader.serial
    /\ ~reader.stale

\* C17: a query that starts after build_index has run to completion, with no
\* build beside it, reads the size of the complete rebuilt collection and is
\* answered from all of its records; a query beside a build is answered from
\* no more than records of the rebuilt collection (it may find the
\* collection absent, or only the batches written so far: C17_Witness and
\* C17_CollectionAbsent are reachable).
C17_QueryAfterBuildSeesAll ==
    /\ (ReaderAfterBuild /\ reader.pc \in {"counted", "done"})
          => reader.count
               = Cardinality(DerivedRecords(store, chunk_size, chunk_overlap))
    /\ (ReaderAfterBuild /\ reader.status = "returned")
          => reader.seen = CompleteFor(reader.filter)
    /\ reader.status = "returned"
          => reader.seen \subseteq CompleteFor(reader.filter)

\* C17 witness: a query beside a build was answered from the batches written
\* so far, which are some but not all of the records it would have been
\* answered from after the build.
C17_Witness ==
    /\ reader.status = "returned"
    /\ ~reader.serial
    /\ reader.seen # {}
    /\ reader.seen # CompleteFor(reader.filter)

\* A query beside a build found the path but not the collection, which the
\* build had deleted and not yet created again.
C17_CollectionAbsent ==
    /\ reader.found = "no_collection"
    /\ reader.status = "raised"

\* A query after a build was answered from every record of the collection.
C17_SerialQueryAnswered ==
    /\ ReaderAfterBuild
    /\ reader.status = "returned"
    /\ Cardinality(reader.seen) >= 2

\* C18: when the relational store yields zero chunks, build_index returns 0
\* and issues no add call on the collection.
C18_NoChunksNoAddCall ==
    (/\ last.valid
     /\ LoadChunksFromDb(last.store, chunk_size, chunk_overlap) = <<>>)
        => /\ last.returned = 0
           /\ last.add_calls = 0
           /\ last.entries = {}

\* C18 witness: a build over a store whose only row is an article with a
\* blank body has returned, and the collection it created is empty.
C18_Witness ==
    /\ BuildJustReturned
    /\ last.store = store
    /\ store.Knowledge_Articles # {}
    /\ LoadChunksFromDb(store, chunk_size, chunk_overlap) = <<>>
    /\ coll_exists
    /\ entries = {}

\* The records that a sequence of collection.add calls carried, in order:
\* the id, document and metadata found at the same position of a call.
RECURSIVE Carried(_)
Carried(calls) ==
    IF calls = <<>> THEN <<>>
    ELSE LET c == Head(calls)
         IN  [i \in 1..Len(c.ids) |->
                 [id |-> c.ids[i], document |-> c.documents[i],
                  metadata |-> c.metadatas[i]]] \o Carried(Tail(calls))

\* Every call was given as many documents and metadatas as ids, at least one
\* and at most `size`, and every call but the last exactly `size`.
WellBatched(calls, size) ==
    \A j \in 1..Len(calls) :
        /\ Len(calls[j].documents) = Len(calls[j].ids)
        /\ Len(calls[j].metadatas) = Len(calls[j].ids)
        /\ Len(calls[j].ids) >= 1
        /\ Len(calls[j].ids) <= size
        /\ j < Len(calls) => Len(calls[j].ids) = size

\* The records of the chunks of store db, in the order of the loader.
RecordsInOrder(db) ==
    LET chunks == LoadChunksFromDb(db, chunk_size, chunk_overlap)
    IN  [i \in 1..Len(chunks) |->
            [id |-> chunks[i].source_type \o "_" \o chunks[i].source_id
                      \o "_" \o ToString(chunks[i].chunk_index),
             document |-> chunks[i].text,
             metadata |-> [source_type |-> chunks[i].source_type,
                           source_id |-> chunks[i].source_id,
                           chunk_index |-> chunks[i].chunk_index]]]

\* C22: for every number of chunks and every positive batch size, the write
\* loop of build_index adds every chunk to the collection exactly once, in
\* order, each add call carrying at most batch-size records, the id, document
\* and metadata of a record always in the same call at the same position;
\* the resulting collection and the returned count do not depend on the
\* batch size.
C22_BatchedWriteAddsEachChunkOnce ==
    /\ bpc = "adding" =>
          /\ WellBatched(added, batch_size)
          /\ Len(added) = add_calls
          /\ bi = add_calls * batch_size
          /\ bi < Len(bids)
          /\ Carried(added)
               = [i \in 1..bi |-> [id |-> bids[i], document |-> bdocs[i],
                                   metadata |-> bmetas[i]]]
          /\ entries = Range(Carried(added))
          /\ Cardinality(entries) = bi
    /\ (last.valid /\ outcome = Returns("build_index")) =>
          LET expected == RecordsInOrder(last.store)
          IN  /\ Carried(last.batches) = expected
              /\ WellBatched(last.batches, last.batch_size)
              /\ last.add_calls = Len(last.batches)
              /\ last.entries = Range(expected)
              /\ Cardinality(last.entries) = Len(expected)
              /\ last.returned = Len(expected)
              /\ entries = last.entries

\* C22 witness: a build over three chunks or more with batch size 2 returned
\* after a full batch and a final batch of one record.
C22_Witness ==
    /\ last.valid
    /\ outcome = Returns("build_index")
    /\ last.batch_size = 2
    /\ last.add_calls >= 2
    /\ Len(last.batches[last.add_calls].ids) = 1
    /\ last.returned = 2 * (last.add_calls - 1) + 1
====
